---- MODULE Spec2Model ----
(***************************************************************************)
(* A model of the sentry-go client (client.go): construction of a Client,  *)
(* the integration registry, the event pipeline behind the capture entry   *)
(* points, and the panic recovery helpers.                                  *)
(*                                                                          *)
(* Conventions.  A Go pointer, interface or slice that may be nil is a      *)
(* sequence of length at most one: Nil is <<>>, a non-nil value x is <<x>>. *)
(* A Go string that is sorted or used as a map key (an integration name)   *)
(* is the sequence of its bytes.  A float32 in [0,1] is the number of      *)
(* tenths it holds, so 0.5 is 5 and 1.0 is 10; order is all the code uses. *)
(***************************************************************************)
EXTENDS Integers, Sequences, FiniteSets, TLC

VARIABLES
    client,     \* the Client built by the last successful NewClient, or Nil
    debugger,   \* the package-level logger: where its output goes
    last,       \* the last operation: its name, its inputs and what it returned
    calls,      \* the calls the last operation made on its collaborators, in order
    log,        \* the lines the last operation printed on the debugger
    setupCount, \* per integration object, the SetupOnce calls since the client was built
    heap,       \* the Event objects of capture calls running at the same time
    frames      \* per goroutine, where its capture call is and what it holds

vars == <<client, debugger, last, calls, log, setupCount, heap, frames>>

-----------------------------------------------------------------------------
(* Nil-able values *)

Nil == <<>>

Some(x) == <<x>>

IsNil(p) == p = <<>>

Deref(p) == p[1]

-----------------------------------------------------------------------------
(* Bounds of the exploration *)

\* the longest integration list handed to NewClient
MaxIntegrations == 2

\* the longest list of integrations of distinct names handed to NewClient
MaxRegistered == 3

-----------------------------------------------------------------------------
(* Strings as byte sequences, and sort.Strings *)

RECURSIVE StrLess(_, _)
StrLess(a, b) ==
    IF a = <<>> THEN b # <<>>
    ELSE IF b = <<>> THEN FALSE
    ELSE IF Head(a) # Head(b) THEN Head(a) < Head(b)
    ELSE StrLess(Tail(a), Tail(b))

MinStr(S) == CHOOSE x \in S : \A y \in S : x = y \/ StrLess(x, y)

RECURSIVE SortStrings(_)
SortStrings(S) ==
    IF S = {} THEN <<>>
    ELSE LET m == MinStr(S) IN <<m>> \o SortStrings(S \ {m})

Range(s) == {s[i] : i \in 1..Len(s)}

-----------------------------------------------------------------------------
(* Collaborators that client.go uses and does not define *)

\* endpoint descriptors: the empty one, one that parses, one that does not
EmptyDsn == ""

GoodDsn == "https://key@sentry.example/1"

BadDsn == "://malformed"

\* NewDsn(raw) -> (*Dsn, error): no descriptor and no error for the empty
\* string, an error for a string that does not parse
NewDsn(raw) ==
    IF raw = EmptyDsn THEN [dsn |-> Nil, err |-> Nil]
    ELSE IF raw = BadDsn THEN [dsn |-> Nil, err |-> Some("invalid dsn")]
    ELSE [dsn |-> Some([raw |-> raw]), err |-> Nil]

\* the SDK's version string and the default severity level
VERSION == "VERSION"

LevelInfo == "info"

\* integration objects: a and a2 answer the same Name()
IntA == [id |-> 1, name |-> <<97>>]

IntA2 == [id |-> 2, name |-> <<97>>]

IntB == [id |-> 3, name |-> <<98>>]

IntegrationObjects == {IntA, IntA2, IntB}

\* integrations named "a", "ab", "b" and "c"
IntAB == [id |-> 4, name |-> <<97, 98>>]

IntC == [id |-> 5, name |-> <<99>>]

RegistryObjects == {IntA, IntAB, IntB, IntC}

IntegrationIds == {i.id : i \in IntegrationObjects \cup RegistryObjects}

\* Integration.Name()
Name(integration) == integration.name

-----------------------------------------------------------------------------
(* Records of what an operation did *)

\* a call on a collaborator; args is read only together with op
Call(op, args) == [op |-> op, args |-> args]

\* a line printed on the debugger
Line(text, arg) == [text |-> text, arg |-> arg]

CallsOf(trace, op) == SelectSeq(trace, LAMBDA c : c.op = op)

NoSetup == [i \in IntegrationIds |-> 0]

\* no operation is recorded: the application is between two calls
NoOp == [op |-> "none", in |-> [none |-> Nil], out |-> [none |-> Nil]]

Idle == last = NoOp

-----------------------------------------------------------------------------
(* NewClient and its helpers *)

\* var debugger = log.New(ioutil.Discard, ...)
DebuggerInit == [out |-> "ioutil.Discard"]

\* lines 48-54: debugger.SetOutput when options.Debug
SetDebugOutput(options, dbg) ==
    IF options.Debug
    THEN [out |-> IF IsNil(options.DebugWriter) THEN "os.Stdout"
                  ELSE Deref(options.DebugWriter)]
    ELSE dbg

\* lines 56-66: the three environment fallbacks
ApplyEnv(options, env) ==
    [options EXCEPT
        !.Dsn = IF @ = "" THEN env.SENTRY_DSN ELSE @,
        !.Release = IF @ = "" THEN env.SENTRY_RELEASE ELSE @,
        !.Environment = IF @ = "" THEN env.SENTRY_ENVIRONMENT ELSE @]

\* setupTransport: the transport chosen, and the Configure call made on it
setupTransport(options) ==
    LET transport == IF IsNil(options.Transport) THEN "HTTPTransport"
                     ELSE Deref(options.Transport)
    IN [Transport |-> transport,
        calls |-> <<Call("Configure", [transport |-> transport, options |-> options])>>]

\* the loop that leaves a name already registered with its first integration
RECURSIVE setupLoopKeepsFirst(_, _)
setupLoopKeepsFirst(list, st) ==
    IF list = <<>> THEN st
    ELSE LET integration == Head(list)
             key == Name(integration)
             m == st.integrations
             registered == [k \in (DOMAIN m) \cup {key} |->
                               IF k \in DOMAIN m THEN m[k] ELSE integration]
         IN setupLoopKeepsFirst(Tail(list),
               [integrations |-> registered,
                calls |-> Append(st.calls, Call("SetupOnce", [integration |-> integration])),
                log |-> Append(st.log, Line("Integration installed: %s", Name(integration))),
                count |-> [st.count EXCEPT ![integration.id] = @ + 1]])

\* the loop of setupIntegrations over the rest of the list, from the state st
\* = [integrations, calls, log, count]
RECURSIVE setupLoop(_, _)
setupLoop(list, st) ==
    IF list = <<>> THEN st
    ELSE LET integration == Head(list)
             key == Name(integration)
             m == st.integrations
             registered == [k \in (DOMAIN m) \cup {key} |->
                               IF k = key THEN integration ELSE m[k]]
         IN setupLoop(Tail(list),
               [integrations |-> registered,
                calls |-> Append(st.calls, Call("SetupOnce", [integration |-> integration])),
                log |-> Append(st.log, Line("Integration installed: %s", Name(integration))),
                count |-> [st.count EXCEPT ![integration.id] = @ + 1]])

EmptyMap == [k \in {} |-> IntA]

\* setupIntegrations: the registry (Nil when no list was configured), the
\* SetupOnce calls and the lines printed
setupIntegrations(options) ==
    IF IsNil(options.Integrations)
    THEN [integrations |-> Nil, calls |-> <<>>, log |-> <<>>, count |-> NoSetup]
    ELSE LET st == setupLoop(Deref(options.Integrations),
                      [integrations |-> EmptyMap, calls |-> <<>>, log |-> <<>>,
                       count |-> NoSetup])
         IN [st EXCEPT !.integrations = Some(st.integrations)]

\* NewClient that sets up the transport and the integrations before it looks
\* at the error of NewDsn
newClientSetsUpFirst(given, env) ==
    LET options == ApplyEnv(given, env)
        parsed == NewDsn(options.Dsn)
        notice == IF IsNil(parsed.dsn)
                  THEN <<Line("Sentry client initialized with an empty DSN", <<>>)>>
                  ELSE <<>>
        tr == setupTransport(options)
        ints == setupIntegrations(options)
    IN IF ~IsNil(parsed.err)
       THEN [client |-> Nil, err |-> parsed.err, calls |-> tr.calls \o ints.calls,
             log |-> ints.log, count |-> ints.count]
       ELSE [client |-> Some([options |-> options, dsn |-> parsed.dsn,
                              integrations |-> ints.integrations,
                              Transport |-> tr.Transport]),
             err |-> Nil,
             calls |-> tr.calls \o ints.calls,
             log |-> notice \o ints.log,
             count |-> ints.count]

\* NewClient that returns the client as soon as it finds no descriptor
newClientStopsOnEmptyDsn(given, env) ==
    LET options == ApplyEnv(given, env)
        parsed == NewDsn(options.Dsn)
        tr == setupTransport(options)
        ints == setupIntegrations(options)
    IN IF ~IsNil(parsed.err)
       THEN [client |-> Nil, err |-> parsed.err, calls |-> <<>>, log |-> <<>>,
             count |-> NoSetup]
       ELSE IF IsNil(parsed.dsn)
       THEN [client |-> Some([options |-> options, dsn |-> parsed.dsn,
                              integrations |-> Nil, Transport |-> "HTTPTransport"]),
             err |-> Nil, calls |-> <<>>,
             log |-> <<Line("Sentry client initialized with an empty DSN", <<>>)>>,
             count |-> NoSetup]
       ELSE [client |-> Some([options |-> options, dsn |-> parsed.dsn,
                              integrations |-> ints.integrations,
                              Transport |-> tr.Transport]),
             err |-> Nil,
             calls |-> tr.calls \o ints.calls,
             log |-> ints.log,
             count |-> ints.count]

\* NewClient(options) under the process environment env: what it returns,
\* the calls it makes and the lines it prints
newClient(given, env) ==
    LET options == ApplyEnv(given, env)
        parsed == NewDsn(options.Dsn)
    IN IF ~IsNil(parsed.err)
       THEN [client |-> Nil, err |-> parsed.err, calls |-> <<>>, log |-> <<>>,
             count |-> NoSetup]
       ELSE LET notice == IF IsNil(parsed.dsn)
                          THEN <<Line("Sentry client initialized with an empty DSN", <<>>)>>
                          ELSE <<>>
                tr == setupTransport(options)
                ints == setupIntegrations(options)
            IN [client |-> Some([options |-> options, dsn |-> parsed.dsn,
                                 integrations |-> ints.integrations,
                                 Transport |-> tr.Transport]),
                err |-> Nil,
                calls |-> tr.calls \o ints.calls,
                log |-> notice \o ints.log,
                count |-> ints.count]

\* the application builds its client once; a construction that failed may be
\* tried again
NewClient(given, env) ==
    LET r == newClient(given, env)
    IN /\ Idle
       /\ IsNil(client)
       /\ debugger' = SetDebugOutput(given, debugger)
       /\ client' = r.client
       /\ last' = [op |-> "NewClient", in |-> [options |-> given, env |-> env],
                   out |-> [client |-> r.client, err |-> r.err]]
       /\ calls' = r.calls
       /\ log' = r.log
       /\ setupCount' = r.count
       /\ UNCHANGED <<heap, frames>>

Reverse(s) == [i \in 1..Len(s) |-> s[Len(s) + 1 - i]]

\* the keys of the registry in an order the map may give them in, unsorted
listIntegrationsUnsorted(c) ==
    IF IsNil(c.integrations) THEN <<>>
    ELSE Reverse(SortStrings(DOMAIN Deref(c.integrations)))

\* Client.listIntegrations: the keys of the registry, sorted
listIntegrations(c) ==
    IF IsNil(c.integrations) THEN <<>>
    ELSE SortStrings(DOMAIN Deref(c.integrations))

\* Client.Options
Options(c) == c.options

-----------------------------------------------------------------------------
(* Events, hints, and the two hooks an event passes *)

ZeroSdk == [Name |-> "", Version |-> "", Integrations |-> <<>>, Packages |-> <<>>]

\* &Event{}: obj tells the objects apart
ZeroEvent(obj) ==
    [obj |-> obj, EventID |-> "", Timestamp |-> 0, Level |-> "", Message |-> "",
     ServerName |-> "", Sdk |-> ZeroSdk, Platform |-> "", Transaction |-> ""]

\* the implementations of EventModifier handed to a capture call
Scopes == {"keep", "veto", "setLevel", "replace"}

\* EventModifier.ApplyToEvent(event, hint)
ApplyToEvent(scope, event, hint) ==
    CASE scope = "keep" -> Some(event)
      [] scope = "veto" -> Nil
      [] scope = "setLevel" -> Some([event EXCEPT !.Level = "fatal"])
      [] scope = "replace" -> Some(ZeroEvent("scope-event"))

\* the functions configured as options.BeforeSend
BeforeSendFuncs == {"keep", "veto", "replace"}

\* options.BeforeSend(event, hint)
BeforeSend(fn, event, hint) ==
    CASE fn = "keep" -> Some(event)
      [] fn = "veto" -> Nil
      [] fn = "replace" -> Some(ZeroEvent("beforesend-event"))

\* Transport.SendEvent(event) -> (response, error); outcome is the network's
SendEvent(transport, event, outcome) ==
    IF outcome = "ok" THEN [resp |-> Some("200 OK"), err |-> Nil]
    ELSE [resp |-> Nil, err |-> Some("transport: send failed")]

\* uuid()
uuid(env) == env.uuid

-----------------------------------------------------------------------------
(* The pipeline *)

ErrSampleRate == "event dropped due to SampleRate hit"

ErrProcessors == "event dropped by one of the EventProcessors"

ErrBeforeSend == "event dropped due to BeforeSend callback"

\* the sampling test without the bypass of a zero rate
SampledOutNoBypass(SampleRate, randomFloat) == randomFloat > SampleRate

\* the sampling test with the comparison turned around
SampledOutInverted(SampleRate, randomFloat) ==
    /\ SampleRate # 0
    /\ randomFloat < SampleRate

\* the sampling test that also drops a draw equal to the rate
SampledOutAtRate(SampleRate, randomFloat) ==
    /\ SampleRate # 0
    /\ randomFloat >= SampleRate

\* lines 200-205: the event is dropped by sampling
SampledOut(SampleRate, randomFloat) ==
    /\ SampleRate # 0
    /\ randomFloat > SampleRate

\* the defaults without the one for the severity level
applyDefaultsNoLevel(c, event, env) ==
    LET e1 == IF event.EventID = "" THEN [event EXCEPT !.EventID = uuid(env)] ELSE event
        e2 == IF e1.Timestamp = 0 THEN [e1 EXCEPT !.Timestamp = env.now] ELSE e1
        e4 == IF e2.ServerName = "" /\ ~IsNil(env.hostname)
              THEN [e2 EXCEPT !.ServerName = Deref(env.hostname)] ELSE e2
    IN [e4 EXCEPT
           !.Sdk = [Name |-> "sentry.go", Version |-> VERSION,
                    Integrations |-> listIntegrations(c),
                    Packages |-> <<[Name |-> "sentry-go", Version |-> VERSION]>>],
           !.Platform = "go",
           !.Transaction = "Don't sneak into my computer please"]

\* the defaults with the timestamp set to the current time in every case
applyDefaultsStampsTime(c, event, env) ==
    LET stamped == [event EXCEPT !.Timestamp = 0]
    IN applyDefaultsNoLevel(c, [stamped EXCEPT
           !.Level = IF event.Level = "" THEN LevelInfo ELSE event.Level], env)

\* the defaults with the platform tag set only when the caller left it empty
applyDefaultsKeepsPlatform(c, event, env) ==
    LET e == applyDefaultsNoLevel(c, [event EXCEPT
                 !.Level = IF event.Level = "" THEN LevelInfo ELSE event.Level], env)
    IN IF event.Platform = "" THEN e ELSE [e EXCEPT !.Platform = event.Platform]

\* lines 227-255 of prepareEvent: the event once the defaults are applied
applyDefaults(c, event, env) ==
    LET e1 == IF event.EventID = "" THEN [event EXCEPT !.EventID = uuid(env)] ELSE event
        e2 == IF e1.Timestamp = 0 THEN [e1 EXCEPT !.Timestamp = env.now] ELSE e1
        e3 == IF e2.Level = "" THEN [e2 EXCEPT !.Level = LevelInfo] ELSE e2
        e4 == IF e3.ServerName = "" /\ ~IsNil(env.hostname)
              THEN [e3 EXCEPT !.ServerName = Deref(env.hostname)] ELSE e3
    IN [e4 EXCEPT
           !.Sdk = [Name |-> "sentry.go", Version |-> VERSION,
                    Integrations |-> listIntegrations(c),
                    Packages |-> <<[Name |-> "sentry-go", Version |-> VERSION]>>],
           !.Platform = "go",
           !.Transaction = "Don't sneak into my computer please"]

\* prepareEvent that calls the scope and returns its own event whatever the
\* scope answered
prepareEventIgnoresScope(c, event, hint, scope, env) ==
    LET prepared == applyDefaults(c, event, env)
    IN [event |-> Some(prepared),
        object |-> prepared,
        calls |-> <<Call("ApplyToEvent", [event |-> prepared, hint |-> hint])>>]

\* prepareEvent that hands the event to the scope first and applies the
\* defaults to what the scope returned
prepareEventScopeFirst(c, event, hint, scope, env) ==
    LET applied == ApplyToEvent(scope, event, hint)
    IN [event |-> IF IsNil(applied) THEN Nil
                  ELSE Some(applyDefaults(c, Deref(applied), env)),
        object |-> IF IsNil(applied) \/ Deref(applied).obj # event.obj THEN event
                   ELSE applyDefaults(c, Deref(applied), env),
        calls |-> <<Call("ApplyToEvent", [event |-> event, hint |-> hint])>>]

\* prepareEvent: the defaults, written to the event it was given, then the
\* scope. object is the given event once prepareEvent is over: as the scope
\* left it when the scope returned that same event, as the defaults left it
\* otherwise
prepareEvent(c, event, hint, scope, env) ==
    LET prepared == applyDefaults(c, event, env)
        applied == ApplyToEvent(scope, prepared, hint)
    IN [event |-> applied,
        object |-> IF IsNil(applied) \/ Deref(applied).obj # prepared.obj THEN prepared
                   ELSE Deref(applied),
        calls |-> <<Call("ApplyToEvent", [event |-> prepared, hint |-> hint])>>]

\* the filter stage that calls BeforeSend and sends the event it had
filterAndSendIgnoresFilter(c, event, hint, env) ==
    LET options == Options(c)
        h == IF ~IsNil(hint) THEN hint ELSE Some([obj |-> "fresh", Context |-> Nil])
        before == IF IsNil(options.BeforeSend) THEN <<>>
                  ELSE <<Call("BeforeSend", [event |-> event, hint |-> h])>>
        sent == SendEvent(c.Transport, event, env.send)
    IN [resp |-> sent.resp, err |-> sent.err,
        calls |-> Append(before,
                    Call("SendEvent", [transport |-> c.Transport, event |-> event]))]

\* the filter stage that obeys a veto of BeforeSend and sends the event it
\* was given, not the one BeforeSend returned
filterAndSendSendsGiven(c, event, hint, env) ==
    LET options == Options(c)
        h == IF ~IsNil(hint) THEN hint ELSE Some([obj |-> "fresh", Context |-> Nil])
        filtered == IF IsNil(options.BeforeSend) THEN Some(event)
                    ELSE BeforeSend(Deref(options.BeforeSend), event, h)
        before == IF IsNil(options.BeforeSend) THEN <<>>
                  ELSE <<Call("BeforeSend", [event |-> event, hint |-> h])>>
    IN IF IsNil(filtered)
       THEN [resp |-> Nil, err |-> Some(ErrBeforeSend), calls |-> before]
       ELSE LET sent == SendEvent(c.Transport, event, env.send)
            IN [resp |-> sent.resp, err |-> sent.err,
                calls |-> Append(before,
                            Call("SendEvent", [transport |-> c.Transport,
                                               event |-> event]))]

\* the filter stage that hands BeforeSend the hint as the caller gave it
filterAndSendPassesHint(c, event, hint, env) ==
    LET options == Options(c)
        filtered == IF IsNil(options.BeforeSend) THEN Some(event)
                    ELSE BeforeSend(Deref(options.BeforeSend), event, hint)
        before == IF IsNil(options.BeforeSend) THEN <<>>
                  ELSE <<Call("BeforeSend", [event |-> event, hint |-> hint])>>
    IN IF IsNil(filtered)
       THEN [resp |-> Nil, err |-> Some(ErrBeforeSend), calls |-> before]
       ELSE LET sent == SendEvent(c.Transport, Deref(filtered), env.send)
            IN [resp |-> sent.resp, err |-> sent.err,
                calls |-> Append(before,
                            Call("SendEvent", [transport |-> c.Transport,
                                               event |-> Deref(filtered)]))]

\* lines 211-221 of processEvent: BeforeSend when configured, then the transport
filterAndSend(c, event, hint, env) ==
    LET options == Options(c)
        h == IF ~IsNil(hint) THEN hint ELSE Some([obj |-> "fresh", Context |-> Nil])
        filtered == IF IsNil(options.BeforeSend) THEN Some(event)
                    ELSE BeforeSend(Deref(options.BeforeSend), event, h)
        before == IF IsNil(options.BeforeSend) THEN <<>>
                  ELSE <<Call("BeforeSend", [event |-> event, hint |-> h])>>
    IN IF IsNil(filtered)
       THEN [resp |-> Nil, err |-> Some(ErrBeforeSend), calls |-> before]
       ELSE LET sent == SendEvent(c.Transport, Deref(filtered), env.send)
            IN [resp |-> sent.resp, err |-> sent.err,
                calls |-> Append(before,
                            Call("SendEvent", [transport |-> c.Transport,
                                               event |-> Deref(filtered)]))]

\* processEvent -> (response, error), with the calls it made and the event
\* it was given as the call leaves it
processEvent(c, event, hint, scope, env) ==
    IF SampledOut(Options(c).SampleRate, env.randomFloat)
    THEN [resp |-> Nil, err |-> Some(ErrSampleRate), calls |-> <<>>, object |-> event]
    ELSE LET p == prepareEvent(c, event, hint, scope, env)
         IN IF IsNil(p.event)
            THEN [resp |-> Nil, err |-> Some(ErrProcessors), calls |-> p.calls,
                  object |-> p.object]
            ELSE LET r == filterAndSend(c, Deref(p.event), hint, env)
                 IN [resp |-> r.resp, err |-> r.err, calls |-> p.calls \o r.calls,
                     object |-> p.object]

\* the results of processEvent handed back to the caller, nothing printed
handBack(r) ==
    [resp |-> r.resp, err |-> r.err, calls |-> r.calls, object |-> r.object,
     log |-> <<>>,
     returned |-> r.err]

\* lines 129-132: the error of processEvent printed on the debugger, both
\* its results dropped; returned is what the caller of CaptureEvent gets back
report(r) ==
    [resp |-> r.resp, err |-> r.err, calls |-> r.calls, object |-> r.object,
     log |-> IF ~IsNil(r.err) THEN <<Line(Deref(r.err), <<>>)>> ELSE <<>>,
     returned |-> Nil]

\* CaptureEvent that hands the error of processEvent back to its caller
captureEventReturnsError(c, event, hint, scope, env) ==
    handBack(processEvent(c, event, hint, scope, env))

\* CaptureEvent: processEvent, then the report of its error
captureEvent(c, event, hint, scope, env) ==
    report(processEvent(c, event, hint, scope, env))

\* the capture call named entry, given the inputs in, is over with result r
captured(entry, in, r) ==
    /\ Idle
    /\ ~IsNil(client)
    /\ last' = [op |-> entry, in |-> in,
                out |-> [resp |-> r.resp, err |-> r.err, object |-> r.object,
                         returned |-> r.returned]]
    /\ calls' = r.calls
    /\ log' = r.log
    /\ UNCHANGED <<client, debugger, setupCount, heap, frames>>

\* what CaptureEvent does with the event; entry names the entry point called
capture(entry, given, event, hint, scope, env) ==
    captured(entry,
             [given |-> given, event |-> event, hint |-> hint, scope |-> scope,
              env |-> env],
             captureEvent(Deref(client), event, hint, scope, env))

CaptureEvent(event, hint, scope, env) ==
    capture("CaptureEvent", Some(event), event, hint, scope, env)

\* eventFromMessage
eventFromMessage(message) == [ZeroEvent("message-event") EXCEPT !.Message = message]

CaptureMessage(message, hint, scope, env) ==
    capture("CaptureMessage", Nil, eventFromMessage(message), hint, scope, env)

\* eventFromException: exception.Error() is the text of the error
eventFromException(exception) ==
    [ZeroEvent("exception-event") EXCEPT !.Message = exception.text]

CaptureException(exception, hint, scope, env) ==
    capture("CaptureException", Nil, eventFromException(exception), hint, scope, env)

-----------------------------------------------------------------------------
(* Recovery helpers *)

\* recovered values, by dynamic type: a pointer type and a string type that
\* implement error, the plain string, a defined string type with no
\* methods, and an int
ErrorValue == [type |-> "*errors.errorString", text |-> "boom"]

StringErrorValue == [type |-> "main.codeError", text |-> "E42"]

StringValue == [type |-> "string", text |-> "panic text"]

NamedStringValue == [type |-> "main.label", text |-> "label"]

IntValue == [type |-> "int", text |-> "42"]

RecoveredValues == {ErrorValue, StringErrorValue, StringValue, NamedStringValue, IntValue}

\* recoveredErr.(error): the dynamic type has an Error() string method
IsError(value) == value.type \in {"*errors.errorString", "main.codeError"}

\* a test of the kind of the value, which a defined string type passes too
IsStringKind(value) == value.type \in {"string", "main.label", "main.codeError"}

\* recoveredErr.(string): the dynamic type is exactly string
IsString(value) == value.type = "string"

\* lines 140-148 and 156-176: the capture calls made for a recovered value,
\* on the receiver on (the package functions or a hub), with hint
dispatch(recovered, on, hint) ==
    IF IsNil(recovered) THEN <<>>
    ELSE LET value == Deref(recovered)
         IN (IF IsError(value)
             THEN <<Call("CaptureException", [on |-> on, arg |-> value, hint |-> hint])>>
             ELSE <<>>)
            \o
            (IF IsString(value)
             THEN <<Call("CaptureMessage", [on |-> on, arg |-> value, hint |-> hint])>>
             ELSE <<>>)

\* lines 136-138 and 152-154: recover() when no value was handed in
orRecover(recoveredErr, panicking) ==
    IF IsNil(recoveredErr) THEN panicking ELSE recoveredErr

\* Client.Recover; panicking is what recover() would return
Recover(recoveredErr, scope, panicking) ==
    LET recovered == orRecover(recoveredErr, panicking)
    IN /\ Idle
       /\ last' = [op |-> "Recover",
                   in |-> [recoveredErr |-> recoveredErr, panicking |-> panicking],
                   out |-> [recovered |-> recovered]]
       /\ calls' = dispatch(recovered, "package", Nil)
       /\ log' = <<>>
       /\ UNCHANGED <<client, debugger, setupCount, heap, frames>>

\* Client.RecoverWithContext; hasHub is HasHubOnContext(ctx)
RecoverWithContext(ctx, recoveredErr, scope, panicking, hasHub) ==
    LET recovered == orRecover(recoveredErr, panicking)
        currentHub == IF hasHub THEN "GetHubFromContext(ctx)" ELSE "CurrentHub()"
    IN /\ Idle
       /\ last' = [op |-> "RecoverWithContext",
                   in |-> [recoveredErr |-> recoveredErr, panicking |-> panicking,
                           ctx |-> ctx, hasHub |-> hasHub],
                   out |-> [recovered |-> recovered]]
       /\ calls' = dispatch(recovered, currentHub,
                            Some([obj |-> "recover", Context |-> Some(ctx)]))
       /\ log' = <<>>
       /\ UNCHANGED <<client, debugger, setupCount, heap, frames>>

-----------------------------------------------------------------------------
(* Reads of the client *)

GetOptions ==
    /\ Idle
    /\ ~IsNil(client)
    /\ last' = [op |-> "Options", in |-> [none |-> Nil],
                out |-> [options |-> Options(Deref(client))]]
    /\ calls' = <<>>
    /\ log' = <<>>
    /\ UNCHANGED <<client, debugger, setupCount, heap, frames>>

\* a listing that makes the registry when NewClient has made none
ListIntegrationsBuildsRegistry ==
    /\ Idle
    /\ ~IsNil(client)
    /\ last' = [op |-> "listIntegrations", in |-> [none |-> Nil],
                out |-> [integrations |-> listIntegrations(Deref(client))]]
    /\ calls' = <<>>
    /\ log' = <<>>
    /\ client' = IF IsNil(Deref(client).integrations)
                 THEN Some([Deref(client) EXCEPT !.integrations = Some(EmptyMap)])
                 ELSE client
    /\ UNCHANGED <<debugger, setupCount, heap, frames>>

ListIntegrations ==
    /\ Idle
    /\ ~IsNil(client)
    /\ last' = [op |-> "listIntegrations", in |-> [none |-> Nil],
                out |-> [integrations |-> listIntegrations(Deref(client))]]
    /\ calls' = <<>>
    /\ log' = <<>>
    /\ UNCHANGED <<client, debugger, setupCount, heap, frames>>

-----------------------------------------------------------------------------
(* Inputs *)

\* sampling rates 0.0, 0.5 and 1.0, and draws 0.0, 0.5 and 0.9 of [0,1)
SampleRates == {0, 5, 10}

Draws == {0, 5, 9}

Hints == {Nil, Some([obj |-> "caller", Context |-> Some("request")])}

CustomSdk ==
    [Name |-> "custom", Version |-> "0", Integrations |-> <<<<122>>>>, Packages |-> <<>>]

\* the events handed to CaptureEvent: each defaulted field set or unset, with
\* the overwritten fields unset, and one event with every field set
PlainEvents ==
    {[ZeroEvent("caller-event") EXCEPT
         !.EventID = id, !.Timestamp = ts, !.Level = lv, !.ServerName = sn,
         !.Message = "hello"] :
        id \in {"", "caller-id"}, ts \in {0, 1500000000}, lv \in {"", "error"},
        sn \in {"", "web-1"}}

FullEvent ==
    [obj |-> "caller-event", EventID |-> "caller-id", Timestamp |-> 1500000000,
     Level |-> "error", Message |-> "hello", ServerName |-> "web-1", Sdk |-> CustomSdk,
     Platform |-> "python", Transaction |-> "GET /"]

HalfEvent == [FullEvent EXCEPT !.EventID = "", !.Level = ""]

CallerEvents == PlainEvents \cup {FullEvent, HalfEvent}

\* what the world answers during one capture call: the draw, the identifier
\* generated, the clock, os.Hostname() (Nil when it fails), the delivery
Envs ==
    [randomFloat : Draws, uuid : {"3f2a9c"}, now : {1600000000},
     hostname : {Nil, Some("host-1")}, send : {"ok", "fail"}]

NoEnviron == [SENTRY_DSN |-> "", SENTRY_RELEASE |-> "", SENTRY_ENVIRONMENT |-> ""]

Environs ==
    {NoEnviron,
     [SENTRY_DSN |-> GoodDsn, SENTRY_RELEASE |-> "env-release", SENTRY_ENVIRONMENT |-> "env-env"],
     [SENTRY_DSN |-> BadDsn, SENTRY_RELEASE |-> "", SENTRY_ENVIRONMENT |-> ""]}

RECURSIVE SeqsUpTo(_, _)
SeqsUpTo(S, n) ==
    IF n = 0 THEN {<<>>}
    ELSE LET shorter == SeqsUpTo(S, n - 1)
         IN shorter \cup {Append(q, x) : q \in shorter, x \in S}

IntegrationLists ==
    {Nil} \cup {Some(q) : q \in SeqsUpTo(IntegrationObjects, MaxIntegrations)}

OptionsOver(dsns, debugs, rates, filters, lists, transports, releases) ==
    {[Dsn |-> d, Debug |-> g.Debug, DebugWriter |-> g.DebugWriter, SampleRate |-> r,
      BeforeSend |-> f, Integrations |-> l, Transport |-> t,
      Release |-> rel.Release, Environment |-> rel.Environment] :
        d \in dsns, g \in debugs, r \in rates, f \in filters, l \in lists,
        t \in transports, rel \in releases}

NoDebug == [Debug |-> FALSE, DebugWriter |-> Nil]

Debugs ==
    {NoDebug, [Debug |-> TRUE, DebugWriter |-> Nil],
     [Debug |-> TRUE, DebugWriter |-> Some("buffer")]}

NoRelease == [Release |-> "", Environment |-> ""]

Releases == {NoRelease, [Release |-> "1.2.3", Environment |-> "production"]}

Filters == {Nil} \cup {Some(f) : f \in BeforeSendFuncs}

\* the options of the pipeline's exploration: every rate and every filter
PipelineOptions ==
    OptionsOver({GoodDsn}, {NoDebug}, SampleRates, Filters,
                {Some(<<IntB, IntA>>)}, {Nil}, {NoRelease})

\* the options of the construction's exploration: every descriptor, debug
\* setting, integration list and transport
SetupOptions ==
    OptionsOver({EmptyDsn, GoodDsn, BadDsn}, Debugs, {0}, {Nil},
                IntegrationLists, {Nil, Some("customTransport")}, Releases)

-----------------------------------------------------------------------------
(* The specifications *)

Init ==
    /\ client = Nil
    /\ debugger = DebuggerInit
    /\ last = NoOp
    /\ calls = <<>>
    /\ log = <<>>
    /\ setupCount = NoSetup
    /\ heap = <<>>
    /\ frames = <<>>

\* the call has returned: the application goes on, and what the call did is
\* no longer looked at
Return ==
    /\ ~Idle
    /\ last' = NoOp
    /\ calls' = <<>>
    /\ log' = <<>>
    /\ UNCHANGED <<client, debugger, setupCount, heap, frames>>

\* a recovered value handed in, or none and what recover() then returns
Recoveries ==
    {[recoveredErr |-> Some(v), panicking |-> Nil] : v \in RecoveredValues}
    \cup {[recoveredErr |-> Nil, panicking |-> p] :
             p \in {Nil, Some(ErrorValue), Some(StringValue), Some(IntValue)}}

DoRecover ==
    \E r \in Recoveries : Recover(r.recoveredErr, "keep", r.panicking)

DoRecoverWithContext ==
    \E r \in Recoveries, hasHub \in BOOLEAN :
        RecoverWithContext("ctx", r.recoveredErr, "keep", r.panicking, hasHub)

\* the pipeline under every rate, filter, scope, event and answer of the world
PipelineNewClient == \E o \in PipelineOptions : NewClient(o, NoEnviron)

DoCaptureEvent ==
    \E event \in CallerEvents, hint \in Hints, scope \in Scopes, env \in Envs :
        CaptureEvent(event, hint, scope, env)

DoCaptureMessage ==
    \E hint \in Hints, scope \in Scopes, env \in Envs :
        CaptureMessage("hello", hint, scope, env)

DoCaptureException ==
    \E hint \in Hints, scope \in Scopes, env \in Envs :
        CaptureException(ErrorValue, hint, scope, env)

Next ==
    \/ PipelineNewClient
    \/ DoCaptureEvent
    \/ DoCaptureMessage
    \/ DoCaptureException
    \/ DoRecover
    \/ DoRecoverWithContext
    \/ GetOptions
    \/ ListIntegrations
    \/ Return

Spec == Init /\ [][Next]_vars

\* construction under every descriptor, environment and integration list
SetupNewClient == \E o \in SetupOptions, env \in Environs : NewClient(o, env)

SetupEnvs == {e \in Envs : e.randomFloat = 5 /\ ~IsNil(e.hostname) /\ e.send = "ok"}

SetupCaptureEvent ==
    \E event \in {FullEvent, HalfEvent}, env \in SetupEnvs :
        CaptureEvent(event, Nil, "keep", env)

SetupCaptureMessage ==
    \E env \in SetupEnvs : CaptureMessage("hello", Nil, "keep", env)

SetupCaptureException ==
    \E env \in SetupEnvs : CaptureException(ErrorValue, Nil, "keep", env)

SetupRecoveries ==
    {r \in Recoveries : r.recoveredErr \in {Nil, Some(StringErrorValue), Some(IntValue)}
                         /\ r.panicking \in {Nil, Some(StringValue)}}

SetupRecover ==
    \E r \in SetupRecoveries : Recover(r.recoveredErr, "keep", r.panicking)

SetupRecoverWithContext ==
    \E r \in SetupRecoveries :
        RecoverWithContext("ctx", r.recoveredErr, "keep", r.panicking, FALSE)

SetupNext ==
    \/ SetupNewClient
    \/ SetupCaptureEvent
    \/ SetupCaptureMessage
    \/ SetupCaptureException
    \/ SetupRecover
    \/ SetupRecoverWithContext
    \/ GetOptions
    \/ ListIntegrations
    \/ Return

SetupSpec == Init /\ [][SetupNext]_vars

\* the registry under every order of registration of up to MaxRegistered
\* integrations
RegistryOptions ==
    OptionsOver({GoodDsn}, {NoDebug}, {0}, {Nil},
                {Nil} \cup {Some(q) : q \in SeqsUpTo(RegistryObjects, MaxRegistered)},
                {Nil}, {NoRelease})

RegistryNewClient == \E o \in RegistryOptions : NewClient(o, NoEnviron)

RegistryCaptureEvent ==
    \E env \in SetupEnvs : CaptureEvent(HalfEvent, Nil, "keep", env)

RegistryNext ==
    \/ RegistryNewClient
    \/ RegistryCaptureEvent
    \/ ListIntegrations
    \/ Return

RegistrySpec == Init /\ [][RegistryNext]_vars

-----------------------------------------------------------------------------
(* Capture calls running at the same time on one client: processEvent and
   prepareEvent statement by statement, on Event objects held in a heap *)

Goroutines == {1, 2}

\* the n-th Event object of the application
CallerCell(n) == <<"caller", n>>

\* the Event object a hook of goroutine g returns in place of the one it got
HookCell(hook, g) == <<hook, g>>

\* the package's debug logger
DebuggerCell == <<"debugger", 0>>

\* the fields prepareEvent fills when they are unset, in its order
DefaultedFields == <<"EventID", "Timestamp", "Level", "ServerName">>

Unset(field) == IF field = "Timestamp" THEN 0 ELSE ""

\* the default of a field, Nil when there is none to be had
DefaultOf(field, env) ==
    CASE field = "EventID" -> Some(uuid(env))
      [] field = "Timestamp" -> Some(env.now)
      [] field = "Level" -> Some(LevelInfo)
      [] field = "ServerName" -> env.hostname

\* the fields prepareEvent assigns in every case, in its order
OverwrittenFields == <<"Sdk", "Platform", "Transaction">>

ClientValue(c, field) ==
    CASE field = "Sdk" -> [Name |-> "sentry.go", Version |-> VERSION,
                           Integrations |-> listIntegrations(c),
                           Packages |-> <<[Name |-> "sentry-go", Version |-> VERSION]>>]
      [] field = "Platform" -> "go"
      [] field = "Transaction" -> "Don't sneak into my computer please"

\* a call of CaptureEvent(event, hint, scope) about to run processEvent
StartFrame(ptr, given, hint, scope, env) ==
    [pc |-> "sample", k |-> 1, event |-> ptr, err |-> Nil, sent |-> Nil,
     reads |-> {}, writes |-> {},
     in |-> [ptr |-> ptr, given |-> given, hint |-> hint, scope |-> scope,
             env |-> env]]

\* prepareEvent working on one Event the client keeps for all calls
TargetScratch(frame) == CallerCell(1)

\* the Event that prepareEvent's parameter points at
Target(frame) == frame.event

\* the place in prepareEvent after the k-th test of an unset field
AfterDefault(k) ==
    IF k < Len(DefaultedFields) THEN [pc |-> "test", k |-> k + 1]
    ELSE [pc |-> "overwrite", k |-> 1]

\* lines 200-205
ConcSample(g) ==
    LET f == frames[g]
        out == SampledOut(Options(Deref(client)).SampleRate, f.in.env.randomFloat)
    IN /\ f.pc = "sample"
       /\ frames' = [frames EXCEPT
              ![g].pc = IF out THEN "report" ELSE "test",
              ![g].err = IF out THEN Some(ErrSampleRate) ELSE Nil]
       /\ UNCHANGED <<client, debugger, last, calls, log, setupCount, heap>>

\* lines 227, 231, 235, 239-240: is the field unset, and is there a default
ConcTest(g) ==
    LET f == frames[g]
        c == Target(f)
        field == DefaultedFields[f.k]
        fill == heap[c][field] = Unset(field) /\ ~IsNil(DefaultOf(field, f.in.env))
        next == IF fill THEN [pc |-> "set", k |-> f.k] ELSE AfterDefault(f.k)
    IN /\ f.pc = "test"
       /\ frames' = [frames EXCEPT ![g].pc = next.pc, ![g].k = next.k,
                                   ![g].reads = @ \cup {c}]
       /\ UNCHANGED <<client, debugger, last, calls, log, setupCount, heap>>

\* lines 228, 232, 236, 241
ConcSet(g) ==
    LET f == frames[g]
        c == Target(f)
        field == DefaultedFields[f.k]
        next == AfterDefault(f.k)
    IN /\ f.pc = "set"
       /\ heap' = [heap EXCEPT ![c][field] = Deref(DefaultOf(field, f.in.env))]
       /\ frames' = [frames EXCEPT ![g].pc = next.pc, ![g].k = next.k,
                                   ![g].writes = @ \cup {c}]
       /\ UNCHANGED <<client, debugger, last, calls, log, setupCount>>

\* lines 245-255
ConcOverwrite(g) ==
    LET f == frames[g]
        c == Target(f)
        field == OverwrittenFields[f.k]
        last_one == f.k = Len(OverwrittenFields)
    IN /\ f.pc = "overwrite"
       /\ heap' = [heap EXCEPT ![c][field] = ClientValue(Deref(client), field)]
       /\ frames' = [frames EXCEPT
              ![g].pc = IF last_one THEN "scope" ELSE "overwrite",
              ![g].k = IF last_one THEN 1 ELSE f.k + 1,
              ![g].writes = @ \cup {c}]
       /\ UNCHANGED <<client, debugger, last, calls, log, setupCount>>

\* line 257 and the test of line 207: the scope works on the event through
\* the pointer, and what it returns is the event from here on
ConcScope(g) ==
    LET f == frames[g]
        c == Target(f)
        applied == ApplyToEvent(f.in.scope, heap[c], f.in.hint)
        same == ~IsNil(applied) /\ Deref(applied).obj = heap[c].obj
        fresh == HookCell("scope", g)
        after == IF IsNil(Options(Deref(client)).BeforeSend) THEN "send" ELSE "filter"
    IN /\ f.pc = "scope"
       /\ heap' = IF IsNil(applied) THEN heap
                  ELSE IF same THEN [heap EXCEPT ![c] = Deref(applied)]
                  ELSE (fresh :> Deref(applied)) @@ heap
       /\ frames' = [frames EXCEPT
              ![g].pc = IF IsNil(applied) THEN "report" ELSE after,
              ![g].err = IF IsNil(applied) THEN Some(ErrProcessors) ELSE Nil,
              ![g].event = IF IsNil(applied) \/ same THEN c ELSE fresh,
              ![g].reads = @ \cup {c},
              ![g].writes = @ \cup (IF same /\ Deref(applied) # heap[c] THEN {c} ELSE {})]
       /\ UNCHANGED <<client, debugger, last, calls, log, setupCount>>

\* lines 211-219
ConcBeforeSend(g) ==
    LET f == frames[g]
        c == f.event
        h == IF ~IsNil(f.in.hint) THEN f.in.hint
             ELSE Some([obj |-> "fresh", Context |-> Nil])
        filtered == BeforeSend(Deref(Options(Deref(client)).BeforeSend), heap[c], h)
        same == ~IsNil(filtered) /\ Deref(filtered).obj = heap[c].obj
        fresh == HookCell("beforesend", g)
    IN /\ f.pc = "filter"
       /\ heap' = IF IsNil(filtered) THEN heap
                  ELSE IF same THEN [heap EXCEPT ![c] = Deref(filtered)]
                  ELSE (fresh :> Deref(filtered)) @@ heap
       /\ frames' = [frames EXCEPT
              ![g].pc = IF IsNil(filtered) THEN "report" ELSE "send",
              ![g].err = IF IsNil(filtered) THEN Some(ErrBeforeSend) ELSE Nil,
              ![g].event = IF IsNil(filtered) \/ same THEN c ELSE fresh,
              ![g].reads = @ \cup {c},
              ![g].writes = @ \cup (IF same /\ Deref(filtered) # heap[c] THEN {c} ELSE {})]
       /\ UNCHANGED <<client, debugger, last, calls, log, setupCount>>

\* line 221: the transport gets the event as it is at this moment
ConcSend(g) ==
    LET f == frames[g]
        c == f.event
        r == SendEvent(Deref(client).Transport, heap[c], f.in.env.send)
    IN /\ f.pc = "send"
       /\ frames' = [frames EXCEPT ![g].pc = "report", ![g].err = r.err,
                                   ![g].sent = Some(heap[c]),
                                   ![g].reads = @ \cup {c}]
       /\ UNCHANGED <<client, debugger, last, calls, log, setupCount, heap>>

\* lines 130-132: CaptureEvent prints the error on the debug logger
ConcReport(g) ==
    LET f == frames[g]
    IN /\ f.pc = "report"
       /\ log' = IF IsNil(f.err) THEN log ELSE Append(log, Line(Deref(f.err), <<>>))
       /\ frames' = [frames EXCEPT
              ![g].pc = "done",
              ![g].writes = @ \cup (IF IsNil(f.err) THEN {} ELSE {DebuggerCell})]
       /\ UNCHANGED <<client, debugger, last, calls, setupCount, heap>>

ConcOptions ==
    OptionsOver({GoodDsn}, {NoDebug}, {0, 5}, {Nil, Some("replace")},
                {Some(<<IntB, IntA>>)}, {Nil}, {NoRelease})

\* what the world answers to the call of goroutine g
ConcEnv(g, draw) ==
    [randomFloat |-> draw, uuid |-> IF g = 1 THEN "id-1" ELSE "id-2",
     now |-> 1600000000 + g, hostname |-> Some("host-1"),
     send |-> IF g = 1 THEN "fail" ELSE "ok"]

\* a client, two Event objects and two calls of CaptureEvent that have begun,
\* handed the same Event object or one each
ConcInit ==
    \E o \in ConcOptions, shared \in BOOLEAN, given \in {ZeroEvent("caller-event"), HalfEvent},
       s1 \in {"keep", "setLevel", "veto"}, s2 \in {"keep", "replace"}, d1 \in {0, 9} :
        LET built == newClient(o, NoEnviron)
            ptr2 == IF shared THEN CallerCell(1) ELSE CallerCell(2)
            objects == (CallerCell(1) :> given) @@ (CallerCell(2) :> FullEvent)
        IN /\ client = built.client
           /\ setupCount = built.count
           /\ debugger = DebuggerInit
           /\ last = NoOp
           /\ calls = <<>>
           /\ log = <<>>
           /\ heap = objects
           /\ frames = [g \in Goroutines |->
                  IF g = 1
                  THEN StartFrame(CallerCell(1), given, Nil, s1, ConcEnv(1, d1))
                  ELSE StartFrame(ptr2, objects[ptr2], Nil, s2, ConcEnv(2, 9))]

ConcNext ==
    \/ \E g \in Goroutines : ConcSample(g)
    \/ \E g \in Goroutines : ConcTest(g)
    \/ \E g \in Goroutines : ConcSet(g)
    \/ \E g \in Goroutines : ConcOverwrite(g)
    \/ \E g \in Goroutines : ConcScope(g)
    \/ \E g \in Goroutines : ConcBeforeSend(g)
    \/ \E g \in Goroutines : ConcSend(g)
    \/ \E g \in Goroutines : ConcReport(g)

ConcSpec == ConcInit /\ [][ConcNext]_vars

-----------------------------------------------------------------------------
(* Properties *)

IsCapture == last.op \in {"CaptureEvent", "CaptureMessage", "CaptureException"}

Count(op) == Len(CallsOf(calls, op))

\* the capture call met no veto: neither from its scope nor from BeforeSend
NoVeto ==
    /\ last.in.scope # "veto"
    /\ Deref(client).options.BeforeSend # Some("veto")

\* C1: with SampleRate 0.0 no capture call is dropped by sampling, and a
\* call that meets no veto hands its event to the transport's SendEvent.
C1_ZeroRateNeverSamplesOut ==
    (IsCapture /\ Deref(client).options.SampleRate = 0) =>
        /\ last.out.err # Some(ErrSampleRate)
        /\ NoVeto => Count("SendEvent") = 1

C1_Witness ==
    /\ IsCapture
    /\ Deref(client).options.SampleRate = 0
    /\ last.in.env.randomFloat = 9
    /\ NoVeto
    /\ Count("SendEvent") = 1

\* C2: with SampleRate 1.0 no capture call is dropped by sampling whatever
\* the draw in [0,1), and a call that meets no veto reaches SendEvent.
C2_FullRatePassesEveryDraw ==
    (IsCapture /\ Deref(client).options.SampleRate = 10) =>
        /\ last.out.err # Some(ErrSampleRate)
        /\ NoVeto => Count("SendEvent") = 1

C2_Witness ==
    /\ IsCapture
    /\ Deref(client).options.SampleRate = 10
    /\ last.in.env.randomFloat = 5
    /\ last.in.scope = "setLevel"
    /\ Count("SendEvent") = 1

\* C3: when the scope's ApplyToEvent returns no event, the capture call
\* invokes neither BeforeSend nor SendEvent and processEvent returns the
\* dropped-by-processor reason.
C3_ScopeVetoStopsPipeline ==
    (IsCapture /\ Count("ApplyToEvent") > 0 /\ last.in.scope = "veto") =>
        /\ Count("BeforeSend") = 0
        /\ Count("SendEvent") = 0
        /\ last.out.err = Some(ErrProcessors)
        /\ last.out.resp = Nil

C3_Witness ==
    /\ IsCapture
    /\ last.in.scope = "veto"
    /\ Count("ApplyToEvent") = 1
    /\ Deref(client).options.BeforeSend = Some("keep")
    /\ last.out.err = Some(ErrProcessors)

\* C4: when a configured BeforeSend returns no event, the capture call does
\* not invoke SendEvent and processEvent returns the dropped-by-before-send
\* reason.
C4_BeforeSendVetoStopsDispatch ==
    (IsCapture /\ Count("BeforeSend") > 0
        /\ Deref(client).options.BeforeSend = Some("veto")) =>
        /\ Count("SendEvent") = 0
        /\ last.out.err = Some(ErrBeforeSend)
        /\ last.out.resp = Nil

C4_Witness ==
    /\ IsCapture
    /\ Deref(client).options.BeforeSend = Some("veto")
    /\ Count("BeforeSend") = 1
    /\ last.in.scope = "replace"
    /\ last.out.err = Some(ErrBeforeSend)

\* the event has an identifier, a timestamp and a level, and the level is
\* "info" when the capture call's caller gave none
Identified(event) ==
    /\ event.EventID # ""
    /\ event.Timestamp # 0
    /\ event.Level # ""
    /\ last.in.event.Level = "" => event.Level = LevelInfo

EventsOf(op) == {c.args.event : c \in Range(CallsOf(calls, op))}

\* the scope and BeforeSend of the capture call return the event they got
HooksKeepEvent ==
    /\ last.in.scope = "keep"
    /\ Deref(client).options.BeforeSend \in {Nil, Some("keep")}

\* C5 as stated: every event passed to SendEvent has a non-empty identifier,
\* a non-zero timestamp and a non-empty level, "info" when the caller gave
\* none, whatever the scope and BeforeSend did to the event.
C5_Original == IsCapture => \A event \in EventsOf("SendEvent") : Identified(event)

\* C5 as amended: every event handed to the scope's ApplyToEvent has a
\* non-empty identifier, a non-zero timestamp and a non-empty level, "info"
\* when the caller gave none, for every capture entry point; the event
\* passed to SendEvent has them when the scope and BeforeSend return the
\* event they were given.
C5_PreparedEventIdentified ==
    IsCapture =>
        /\ \A event \in EventsOf("ApplyToEvent") : Identified(event)
        /\ HooksKeepEvent => \A event \in EventsOf("SendEvent") : Identified(event)

C5_Witness ==
    /\ last.op = "CaptureMessage"
    /\ HooksKeepEvent
    /\ Deref(client).options.BeforeSend = Some("keep")
    /\ \E event \in EventsOf("SendEvent") : event.Level = LevelInfo /\ event.EventID # ""

\* the defaults of prepareEvent are visible on the event
Defaulted(event) ==
    /\ event.EventID # ""
    /\ event.Timestamp # 0
    /\ event.Level # ""
    /\ event.Sdk.Name = "sentry.go"
    /\ event.Platform = "go"

\* ApplyToEvent is the first call of the capture call, on a defaulted event
ScopeAfterDefaultsBeforeFilter ==
    /\ Count("ApplyToEvent") = 1
    /\ calls[1].op = "ApplyToEvent"
    /\ Defaulted(calls[1].args.event)
    /\ \A i \in 1..Len(calls) : calls[i].op = "BeforeSend" => i > 1

\* C6 as stated: ApplyToEvent is called exactly once per capture call, for
\* every sampling rate, after the defaults and before any BeforeSend.
C6_Original == IsCapture => ScopeAfterDefaultsBeforeFilter

\* C6 as amended: ApplyToEvent is called exactly once per capture call that
\* sampling does not drop, after the defaults and before any BeforeSend, and
\* not at all in a capture call that sampling drops.
C6_ScopeOnceUnlessSampledOut ==
    IsCapture =>
        IF last.out.err = Some(ErrSampleRate)
        THEN Count("ApplyToEvent") = 0
        ELSE ScopeAfterDefaultsBeforeFilter

C6_Witness ==
    /\ last.op = "CaptureEvent"
    /\ Deref(client).options.SampleRate = 5
    /\ last.in.env.randomFloat = 5
    /\ Count("ApplyToEvent") = 1
    /\ Count("BeforeSend") = 1
    /\ calls[2].op = "BeforeSend"

IsRecover == last.op \in {"Recover", "RecoverWithContext"}

\* the recovery helper made byError capture-by-error calls and byMessage
\* capture-by-message calls
Dispatched(byError, byMessage) ==
    /\ Count("CaptureException") = byError
    /\ Count("CaptureMessage") = byMessage
    /\ Len(calls) = byError + byMessage

\* C7: for a non-nil recovered value, Recover and RecoverWithContext make
\* exactly one capture-by-error call and no capture-by-message call when the
\* value's dynamic type is an error, exactly one capture-by-message call and
\* no capture-by-error call when it is a plain string, and no capture call
\* when it is of any other type.
C7_RecoverDispatchByType ==
    (IsRecover /\ ~IsNil(last.out.recovered)) =>
        LET value == Deref(last.out.recovered)
        IN /\ value \in {ErrorValue, StringErrorValue} =>
                /\ Dispatched(1, 0)
                /\ calls[1].args.arg = value
           /\ value = StringValue =>
                /\ Dispatched(0, 1)
                /\ calls[1].args.arg = value
           /\ value \in {NamedStringValue, IntValue} => Dispatched(0, 0)

C7_Witness ==
    /\ last.op = "RecoverWithContext"
    /\ last.in.recoveredErr = Some(StringErrorValue)
    /\ Dispatched(1, 0)
    /\ calls[1].args.on = "GetHubFromContext(ctx)"

\* the endpoint descriptor NewClient parses: the option, or the environment's
\* when the option is empty
GivenDsn ==
    IF last.in.options.Dsn # "" THEN last.in.options.Dsn ELSE last.in.env.SENTRY_DSN

\* the integration list NewClient was given, empty when there is none
GivenIntegrations ==
    IF IsNil(last.in.options.Integrations) THEN <<>>
    ELSE Deref(last.in.options.Integrations)

\* C8: when the endpoint descriptor, after the environment fallback, does not
\* parse, NewClient returns the error and no client, and calls neither the
\* transport's Configure nor any integration's SetupOnce.
C8_BadDsnAbortsConstruction ==
    (last.op = "NewClient" /\ GivenDsn = BadDsn) =>
        /\ last.out.client = Nil
        /\ last.out.err # Nil
        /\ client = Nil
        /\ Count("Configure") = 0
        /\ Count("SetupOnce") = 0
        /\ \A i \in IntegrationIds : setupCount[i] = 0

C8_Witness ==
    /\ last.op = "NewClient"
    /\ last.in.options.Dsn = ""
    /\ last.in.env.SENTRY_DSN = BadDsn
    /\ Len(GivenIntegrations) = 2
    /\ last.in.options.Transport # Nil
    /\ last.out.client = Nil
    /\ last.out.err # Nil

EmptyDsnNotice == Line("Sentry client initialized with an empty DSN", <<>>)

\* C9: when the endpoint descriptor is empty, with no value in the options
\* and none in the environment, NewClient returns a client and no error,
\* prints the empty-DSN notice on the debugger, configures the transport and
\* calls SetupOnce on every integration of the list.
C9_EmptyDsnStillConstructs ==
    (last.op = "NewClient" /\ GivenDsn = EmptyDsn) =>
        /\ last.out.client # Nil
        /\ last.out.err = Nil
        /\ client = last.out.client
        /\ EmptyDsnNotice \in Range(log)
        /\ Count("Configure") = 1
        /\ calls[1].op = "Configure"
        /\ calls[1].args.transport = Deref(client).Transport
        /\ Count("SetupOnce") = Len(GivenIntegrations)
        /\ \A i \in 1..Len(GivenIntegrations) :
               CallsOf(calls, "SetupOnce")[i].args.integration = GivenIntegrations[i]

C9_Witness ==
    /\ last.op = "NewClient"
    /\ GivenDsn = EmptyDsn
    /\ last.out.client # Nil
    /\ GivenIntegrations = <<IntB, IntA>>
    /\ EmptyDsnNotice \in Range(log)
    /\ Count("SetupOnce") = 2

\* positions i < j of the list hold integrations of one name
SameName(i, j) ==
    /\ i < j
    /\ Name(GivenIntegrations[i]) = Name(GivenIntegrations[j])

\* the last integration of the list that answers name
LastNamed(name) ==
    LET at == CHOOSE j \in 1..Len(GivenIntegrations) :
                  /\ Name(GivenIntegrations[j]) = name
                  /\ \A k \in (j + 1)..Len(GivenIntegrations) :
                         Name(GivenIntegrations[k]) # name
    IN GivenIntegrations[at]

Occurrences(seq, x) == Cardinality({i \in 1..Len(seq) : seq[i] = x})

\* C10: when the list holds two integrations of the same name, construction
\* calls SetupOnce for both, the registry ends with one entry under that
\* name, holding the later of the two in list order, and the listing holds
\* the name exactly once.
C10_DuplicateNameLastWins ==
    (last.op = "NewClient" /\ ~IsNil(client)) =>
        \A i, j \in 1..Len(GivenIntegrations) :
            SameName(i, j) =>
                LET name == Name(GivenIntegrations[j])
                    registry == Deref(Deref(client).integrations)
                    setups == CallsOf(calls, "SetupOnce")
                IN /\ Len(setups) = Len(GivenIntegrations)
                   /\ setups[i].args.integration = GivenIntegrations[i]
                   /\ setups[j].args.integration = GivenIntegrations[j]
                   /\ name \in DOMAIN registry
                   /\ registry[name] = LastNamed(name)
                   /\ Occurrences(listIntegrations(Deref(client)), name) = 1

C10_Witness ==
    /\ last.op = "NewClient"
    /\ ~IsNil(client)
    /\ GivenIntegrations = <<IntA, IntA2>>
    /\ Deref(Deref(client).integrations)[Name(IntA)] = IntA2
    /\ listIntegrations(Deref(client)) = <<Name(IntA)>>
    /\ setupCount[IntA.id] = 1
    /\ setupCount[IntA2.id] = 1

\* a comes before b in the byte-wise order of strings: they first differ at
\* k, where a has ended or holds the smaller byte
Precedes(a, b) ==
    \E k \in 1..Len(b) :
        /\ \A i \in 1..(k - 1) : i <= Len(a) /\ a[i] = b[i]
        /\ k > Len(a) \/ a[k] < b[k]

\* the names of the integrations the client was configured with
ConfiguredNames ==
    IF IsNil(Deref(client).options.Integrations) THEN {}
    ELSE {Name(x) : x \in Range(Deref(Deref(client).options.Integrations))}

\* names holds the configured names, each once, in ascending order
ListsConfiguredNames(names) ==
    /\ Range(names) = ConfiguredNames
    /\ \A i, j \in 1..Len(names) : i < j => Precedes(names[i], names[j])
    /\ Deref(client).options.Integrations = Some(<<IntB, IntA, IntC>>) =>
           names = <<Name(IntA), Name(IntB), Name(IntC)>>

\* C11: for every order of registration, listIntegrations, and with it the
\* integration list of every prepared event's SDK metadata, holds exactly the
\* registered names, each once, in ascending lexicographic order;
\* registering b, a, c yields a, b, c.
C11_ListingSortedAndComplete ==
    /\ last.op = "listIntegrations" => ListsConfiguredNames(last.out.integrations)
    /\ IsCapture =>
           \A event \in EventsOf("ApplyToEvent") :
               ListsConfiguredNames(event.Sdk.Integrations)

C11_Witness ==
    /\ last.op = "listIntegrations"
    /\ Deref(client).options.Integrations = Some(<<IntB, IntA, IntC>>)
    /\ last.out.integrations = <<<<97>>, <<98>>, <<99>>>>

\* the five ways a capture call ends: no error after a delivery, or the
\* error of the stage that stopped it
PipelineOutcomes ==
    {Nil, Some(ErrSampleRate), Some(ErrProcessors), Some(ErrBeforeSend),
     Some("transport: send failed")}

\* C12: CaptureEvent, CaptureMessage and CaptureException are fire-and-forget:
\* whether the call was sampled out, vetoed by the scope, vetoed by
\* BeforeSend, failed in the transport or delivered its event, the
\* application gets nothing back, and the error, if any, is one line on the
\* debug channel.
C12_CaptureIsFireAndForget ==
    IsCapture =>
        /\ last.out.err \in PipelineOutcomes
        /\ last.out.returned = Nil
        /\ log = IF IsNil(last.out.err) THEN <<>>
                 ELSE <<Line(Deref(last.out.err), <<>>)>>

C12_Witness ==
    /\ last.op = "CaptureMessage"
    /\ last.out.err = Some("transport: send failed")
    /\ last.out.returned = Nil
    /\ log = <<Line("transport: send failed", <<>>)>>

\* C14: with a non-zero SampleRate a capture call is dropped by sampling
\* exactly when its draw is strictly greater than the rate, and a call
\* dropped by sampling leaves the event as the caller gave it and calls
\* neither ApplyToEvent, nor BeforeSend, nor SendEvent.
C14_SamplingDropsAboveRateOnly ==
    (IsCapture /\ Deref(client).options.SampleRate # 0) =>
        /\ last.out.err = Some(ErrSampleRate) <=>
               last.in.env.randomFloat > Deref(client).options.SampleRate
        /\ last.out.err = Some(ErrSampleRate) =>
               /\ calls = <<>>
               /\ last.out.object = last.in.event

C14_Witness ==
    /\ last.op = "CaptureEvent"
    /\ Deref(client).options.SampleRate = 5
    /\ last.in.env.randomFloat = 9
    /\ last.out.err = Some(ErrSampleRate)
    /\ last.in.event = HalfEvent
    /\ last.out.object = HalfEvent
    /\ calls = <<>>

\* the integration objects in the list the client was configured with
ConfiguredObjects ==
    IF IsNil(Deref(client).options.Integrations) THEN {}
    ELSE Range(Deref(Deref(client).options.Integrations))

\* C13: every integration object in the client's configured list has had its
\* SetupOnce called exactly once, in NewClient, and no capture, recover,
\* Options or listing operation calls it again; this includes an object or a
\* name that is in the list more than once.
C13_Original ==
    ~IsNil(client) => \A x \in ConfiguredObjects : setupCount[x.id] = 1

\* the value prepareEvent leaves in one of the four defaulted fields, given
\* what the caller had put there, the field's unset value and the default
KeptOrFilled(got, given, unset, default) ==
    got = IF given # unset THEN given ELSE default

\* C15: of the identifier, the timestamp, the severity level and the server
\* name, the event handed to ApplyToEvent keeps each one the caller supplied
\* and has a default in each one the caller left unset; the server name
\* stays unset when the host name cannot be determined.
C15_DefaultsOnlyWhenUnset ==
    IsCapture =>
        \A event \in EventsOf("ApplyToEvent") :
            LET given == last.in.event
                env == last.in.env
            IN /\ KeptOrFilled(event.EventID, given.EventID, "", env.uuid)
               /\ KeptOrFilled(event.Timestamp, given.Timestamp, 0, env.now)
               /\ KeptOrFilled(event.Level, given.Level, "", "info")
               /\ KeptOrFilled(event.ServerName, given.ServerName, "",
                               IF IsNil(env.hostname) THEN ""
                               ELSE Deref(env.hostname))

C15_Witness ==
    /\ last.op = "CaptureEvent"
    /\ last.in.event = HalfEvent
    /\ \E event \in EventsOf("ApplyToEvent") :
           /\ event.EventID = last.in.env.uuid
           /\ event.Timestamp = 1500000000
           /\ event.Level = "info"
           /\ event.ServerName = "web-1"

\* C16: whatever the caller had put in the SDK metadata, the platform tag
\* and the transaction label, the event handed to ApplyToEvent has there the
\* client's values: SDK name and version, the sorted names of the client's
\* integrations, the one package, the platform "go" and the fixed label.
C16_SdkPlatformTransactionOverwritten ==
    IsCapture =>
        \A event \in EventsOf("ApplyToEvent") :
            /\ event.Sdk.Name = "sentry.go"
            /\ event.Sdk.Version = VERSION
            /\ ListsConfiguredNames(event.Sdk.Integrations)
            /\ event.Sdk.Packages = <<[Name |-> "sentry-go", Version |-> VERSION]>>
            /\ event.Platform = "go"
            /\ event.Transaction = "Don't sneak into my computer please"

C16_Witness ==
    /\ last.op = "CaptureEvent"
    /\ last.in.event = FullEvent
    /\ last.in.event.Sdk = CustomSdk
    /\ last.in.event.Platform = "python"
    /\ last.in.event.Transaction = "GET /"
    /\ \E event \in EventsOf("ApplyToEvent") :
           /\ event.Sdk.Name = "sentry.go"
           /\ event.Sdk.Integrations = <<<<97>>, <<98>>>>
           /\ event.Platform = "go"
           /\ event.Transaction = "Don't sneak into my computer please"

\* the positions in calls of the calls of op
PositionsOf(op) == {i \in 1..Len(calls) : calls[i].op = op}

\* what the hook called at position i returned
Returned(i) ==
    IF calls[i].op = "ApplyToEvent"
    THEN ApplyToEvent(last.in.scope, calls[i].args.event, calls[i].args.hint)
    ELSE BeforeSend(Deref(Deref(client).options.BeforeSend),
                    calls[i].args.event, calls[i].args.hint)

\* the draw of the capture call let the event pass
PassedSampling ==
    \/ Deref(client).options.SampleRate = 0
    \/ last.in.env.randomFloat <= Deref(client).options.SampleRate

\* C19: a capture call calls SendEvent at most once; when it does, sampling
\* had passed, SendEvent is the call's last step, the step before it is
\* BeforeSend when configured and the scope's ApplyToEvent otherwise, that
\* step returned an event, and this returned event is the one SendEvent gets,
\* be it the caller's object or another.
C19_SendsOnceWhatLastStageReturned ==
    IsCapture =>
        /\ Count("SendEvent") <= 1
        /\ \A i \in PositionsOf("SendEvent") :
               /\ PassedSampling
               /\ i = Len(calls)
               /\ i > 1
               /\ PositionsOf("ApplyToEvent") = {1}
               /\ ~IsNil(Returned(1))
               /\ calls[i - 1].op =
                      IF IsNil(Deref(client).options.BeforeSend) THEN "ApplyToEvent"
                      ELSE "BeforeSend"
               /\ Returned(i - 1) = Some(calls[i].args.event)

C19_Witness ==
    /\ last.op = "CaptureEvent"
    /\ Deref(client).options.BeforeSend = Some("replace")
    /\ last.in.event.obj = "caller-event"
    /\ Len(calls) = 3
    /\ calls[3].op = "SendEvent"
    /\ calls[3].args.event.obj = "beforesend-event"

\* an EventHint with nothing in it, made by the call itself
FreshHint == Some([obj |-> "fresh", Context |-> Nil])

\* C20: every call of BeforeSend gets a hint that is not nil: the caller's
\* when the capture call was given one, a fresh empty one otherwise; every
\* call of ApplyToEvent gets the hint the capture call was given, nil when
\* it was given none.
C20_BeforeSendHintNeverNil ==
    IsCapture =>
        /\ \A i \in PositionsOf("BeforeSend") :
               /\ ~IsNil(calls[i].args.hint)
               /\ calls[i].args.hint =
                      IF IsNil(last.in.hint) THEN FreshHint ELSE last.in.hint
        /\ \A i \in PositionsOf("ApplyToEvent") : calls[i].args.hint = last.in.hint

C20_Witness ==
    /\ last.op = "CaptureEvent"
    /\ IsNil(last.in.hint)
    /\ Len(calls) >= 2
    /\ calls[1].op = "ApplyToEvent"
    /\ IsNil(calls[1].args.hint)
    /\ calls[2].op = "BeforeSend"
    /\ calls[2].args.hint = FreshHint

\* C17: once NewClient has returned a client, no capture, recover, Options or
\* listing operation changes it: its options, its transport and its registry
\* of integrations stay what construction made them.
C17_ClientFrozenAfterConstruction ==
    [][~IsNil(client) => client' = client]_vars

C17_Witness ==
    /\ last.op \in {"listIntegrations", "Options", "CaptureEvent", "Recover"}
    /\ ~IsNil(client)
    /\ Deref(client).options.Integrations = Some(<<IntB, IntA>>)
    /\ ~IsNil(Deref(client).integrations)
    /\ Deref(Deref(client).integrations) = (<<97>> :> IntA) @@ (<<98>> :> IntB)
    /\ Deref(client).Transport = "HTTPTransport"

Finished(g) == frames[g].pc = "done"

\* how the call of goroutine g ended: its error and the event SendEvent got
Outcome(g) == [err |-> frames[g].err, sent |-> frames[g].sent]

\* how the call of goroutine g ends when no other call runs
Alone(g) ==
    LET in == frames[g].in
        r == processEvent(Deref(client), in.given, in.hint, in.scope, in.env)
        sends == CallsOf(r.calls, "SendEvent")
    IN [err |-> r.err,
        sent |-> IF sends = <<>> THEN Nil ELSE Some(sends[1].args.event)]

\* the state outside places that goroutine g wrote and another goroutine
\* read or wrote
Contended(g, places) ==
    UNION {frames[g].writes \cap (frames[h].reads \cup frames[h].writes) :
               h \in Goroutines \ {g}} \ places

\* a call that is over ended as it would have ended alone
EndsAsAlone == \A g \in Goroutines : Finished(g) => Outcome(g) = Alone(g)

\* C18 as stated: capture calls running at the same time on one client,
\* handed the same Event object or not, each end as they would have ended
\* alone, and none writes state another reads or writes.
C18_Original ==
    /\ EndsAsAlone
    /\ \A g \in Goroutines : Contended(g, {}) = {}

\* no two calls were handed the same Event object
OwnEvents ==
    \A g, h \in Goroutines : g # h => frames[g].in.ptr # frames[h].in.ptr

\* C18: capture calls running at the same time on one client, each handed an
\* Event object of its own, each end as they would have ended alone under
\* every interleaving of their steps, and none writes state another reads or
\* writes, the debug logger that failed calls print on left aside.
C18_OwnEventsDoNotInterfere ==
    OwnEvents =>
        /\ EndsAsAlone
        /\ \A g \in Goroutines : Contended(g, {DebuggerCell}) = {}

C18_Witness ==
    /\ OwnEvents
    /\ \A g \in Goroutines : Finished(g) /\ ~IsNil(frames[g].sent)
    /\ frames[1].sent = Some(heap[CallerCell(1)])
    /\ frames[2].sent = Some(heap[CallerCell(2)])
    /\ frames[1].writes = {CallerCell(1), DebuggerCell}
    /\ frames[2].writes = {CallerCell(2)}

====
